---- MODULE Spec2Model ----
(***************************************************************************)
(* State-machine model of the game generation pipelines of                 *)
(* MetaGPT/adaptive_game_generator.py (AdaptiveContentAnalyzer,            *)
(* EnhancedGameGenerator, AdaptiveGameSystem) and                          *)
(* MetaGPT/robust_game_generator.py (RobustGameGeneratorAction,            *)
(* RobustGameGenerator).                                                   *)
(*                                                                         *)
(* One step of the model is the code that runs between two external        *)
(* interactions (a call of llm.aask, the write of a game file).  The       *)
(* answer of the language model and the outcome of a game-file write are   *)
(* the nondeterministic inputs.  Writes of index.html and of the report    *)
(* and the creation of the output directory are taken to succeed.          *)
(***************************************************************************)
EXTENDS Integers, Sequences, FiniteSets, TLC

VARIABLES
    variant,          \* "adaptive" | "robust": which driver runs
    pc,               \* position of the driver
    result,           \* how the driver ended
    content,          \* text of the content file (run-length encoded) or missing
    analysis,         \* the analysis in use (adaptive) / the mini_games plan (robust)
    lastData,         \* last parsed analyzer response handed to _validate_analysis
    lastVerdict,      \* what _validate_analysis returned for lastData
    anStatus,         \* AdaptiveContentAnalyzer.run: idle, running, returned, raised
    anAttempt,        \* loop variable `attempt` of AdaptiveContentAnalyzer.run
    analyzerCalls,    \* number of llm.aask calls made by the analyzer
    i,                \* loop variable `i` of the driver loop (0 before the loop)
    attempt,          \* loop variable `attempt` of the synthesizer's run
    gameCalls,        \* llm.aask calls made by the current invocation of run
    synthCalls,       \* llm.aask calls made by all invocations of run
    html,             \* value returned by the synthesizer's run for game i
    met,              \* the last answer to the current invocation of run met
                      \* the success criteria (history variable)
    started,          \* positions for which the synthesizer's run was invoked
    handled,          \* positions whose loop body has finished
    files,            \* filenames of the game files written
    successful_games, \* the driver's list successful_games
    errLog,           \* logged "Failed to generate game i: reason", as <<i, reason>>
    dirCreated,       \* output_path.mkdir was executed
    indexRefs,        \* filenames referenced by the written index.html
    indexWritten,     \* index.html was written
    report,           \* the written analysis_report.json, or NoReport
    outcome,          \* what the caller of the driver sees: running, returned
                      \* (the coroutine returned None) or raised
    lastKind,         \* kind of the last answer to the current invocation of
                      \* the synthesizer's run (history variable)
    slept,            \* the last loop iteration of the analyzer or of a
                      \* synthesizer ended with asyncio.sleep(1)
    san,              \* the sanitizer applied to one raw response
    fn,               \* a game filename built from a position and a title
    ma                \* the multi-agent pipeline: messages and files

vars == <<variant, pc, result, content, analysis, lastData, lastVerdict,
          anStatus, anAttempt, analyzerCalls, i, attempt, gameCalls,
          synthCalls, html, met, started, handled, files,
          successful_games, errLog, dirCreated, indexRefs, indexWritten, report,
          outcome, lastKind, slept, san, fn, ma>>

----------------------------------------------------------------------------
(* Program constants *)

\* a retry loop that runs once too often
max_retries_plus_one == 3 + 1

max_retries == 3

MinContentLen == 50

MinResponseLen == 100

MinCleanedLen == 200

MinGameCount == 3

MaxGameCount == 15

(* Bounds of the model *)

\* longest game plan the driver is run on
MaxGames == 3

\* largest optimal_game_count / list length offered to the validator alone
MaxCount == 16

\* most entries of one analysis that deviate from the prompt's format
MaxAnomalies == 1

----------------------------------------------------------------------------
(* Text of the content file.  A text is run-length encoded: a sequence of  *)
(* runs, each a number n >= 1 of whitespace or of non-whitespace            *)
(* characters.                                                             *)

Run(isWs, n) == [ws |-> isWs, n |-> n]

RECURSIVE StrLen(_)
\* len(s)
StrLen(s) == IF s = <<>> THEN 0 ELSE Head(s).n + StrLen(Tail(s))

RECURSIVE NonWsCount(_)
\* number of non-whitespace characters of s
NonWsCount(s) ==
    IF s = <<>> THEN 0
    ELSE (IF Head(s).ws THEN 0 ELSE Head(s).n) + NonWsCount(Tail(s))

RECURSIVE LStrip(_)
LStrip(s) == IF s # <<>> /\ Head(s).ws THEN LStrip(Tail(s)) ELSE s

RECURSIVE RStrip(_)
RStrip(s) ==
    IF s # <<>> /\ s[Len(s)].ws THEN RStrip(SubSeq(s, 1, Len(s) - 1)) ELSE s

\* str.strip(): removes leading and trailing whitespace only
Strip(s) == RStrip(LStrip(s))

\* a length test that forgets strip()
ContentTooShort_unstripped(s) == StrLen(s) < MinContentLen

\* `len(content.strip()) < 50`
ContentTooShort(s) == StrLen(Strip(s)) < MinContentLen

\* the content files the driver is run on; exists = FALSE: open() raises
Texts ==
    { <<>>,
      <<Run(TRUE, MinContentLen + 10)>>,
      <<Run(FALSE, MinContentLen - 1)>>,
      <<Run(FALSE, MinContentLen)>>,
      <<Run(TRUE, 2), Run(FALSE, MinContentLen - 1), Run(TRUE, 3)>>,
      <<Run(FALSE, MinContentLen - 25), Run(TRUE, 5), Run(FALSE, 24)>>,
      <<Run(TRUE, 1), Run(FALSE, MinContentLen - 20), Run(TRUE, 1),
        Run(FALSE, 20), Run(TRUE, 1)>> }

NoContent == [exists |-> FALSE, text |-> <<>>]

Contents == {NoContent} \cup [exists : {TRUE}, text : Texts]

----------------------------------------------------------------------------
(* Parsed analyzer responses (the value of json.loads).                    *)
(*   top      "dict" or "other" (a list, a number, ...)                    *)
(*   ca       content_analysis: absent | nondict | dict                    *)
(*   countKind, count   optimal_game_count: absent | str | int with value  *)
(*   extras   which of the keys read later by the driver are present:      *)
(*            "full" | "noLearningTime" | "noBreakdown"                    *)
(*   gs       game_specifications: absent | null | list                    *)
(*   items    the entries of the list, each one of                         *)
(*            "ok"      a dict in the format the prompt asks for           *)
(*            "badtime" a dict whose estimated_time does not start with an *)
(*                      integer token ("5-10 minutes", 5, "")              *)
(*            "nondict" not a dict (a string, null, a list)                *)
(*   numbers  the game_number values of the entries: "exact" (entry k      *)
(*            carries k), "duplicate", "gap" (a number of 1..n is missing  *)
(*            or an entry carries none) or "out_of_range"                  *)

SpecKinds == {"ok", "badtime", "nondict"}

Uniform(n) == [k \in 1..n |-> "ok"]

Anomalies(items) == Cardinality({k \in 1..Len(items) : items[k] # "ok"})

\* plans of length lo..hi with at most MaxAnomalies deviating entries
Plans(lo, hi) ==
    UNION { { items \in [1..n -> SpecKinds] : Anomalies(items) <= MaxAnomalies }
            : n \in lo..hi }

Data(top, ca, countKind, count, extras, gs, items) ==
    [top |-> top, ca |-> ca, countKind |-> countKind, count |-> count,
     extras |-> extras, gs |-> gs, items |-> items, numbers |-> "exact"]

NumberKinds == {"exact", "duplicate", "gap", "out_of_range"}

\* the results of D, and every other numbering of those whose list has
\* the declared length
Renumbered(D) ==
    D \cup { [d EXCEPT !.numbers = n] :
               d \in {x \in D : x.gs = "list" /\ Len(x.items) = x.count
                                  /\ Len(x.items) >= 2},
               n \in NumberKinds }

NoAnalysis == Data("none", "absent", "absent", 0, "full", "absent", <<>>)

\* well-typed results: a dict with both sections, an integer count and a list
DictData(counts, lists, extrasSet) ==
    { Data("dict", "dict", "int", c, e, "list", l) :
        c \in counts, l \in lists, e \in extrasSet }

\* results of another shape, around a count c and a list l
OddData(c, l) ==
    { Data("other", "absent", "absent", 0, "full", "absent", <<>>),
      Data("dict", "absent", "absent", 0, "full", "list", l),
      Data("dict", "dict", "int", c, "full", "absent", <<>>),
      Data("dict", "nondict", "absent", 0, "full", "list", l),
      Data("dict", "dict", "absent", 0, "full", "list", l),
      Data("dict", "dict", "str", c, "full", "list", l),
      Data("dict", "dict", "int", c, "full", "null", <<>>) }

\* the results offered to the analyzer when it runs inside the driver
DriverData ==
    { d \in DictData((MinGameCount - 1)..MaxGames,
                     Plans(MinGameCount - 1, MaxGames),
                     {"full", "noLearningTime", "noBreakdown"}) :
        Anomalies(d.items) + (IF d.extras = "full" THEN 0 ELSE 1) <= MaxAnomalies }
    \cup OddData(MinGameCount, Uniform(MinGameCount))

\* the results offered to the analyzer when it runs alone
WideData ==
    Renumbered(DictData(0..MaxCount, {Uniform(n) : n \in 0..MaxCount}, {"full"}))
    \cup UNION { OddData(c, Uniform(c)) : c \in {MinGameCount, MaxGameCount} }

\* a validator that forgets to compare the list length with the count
validate_analysis_lenfree(data) ==
    /\ data.top = "dict"
    /\ data.ca # "absent" /\ data.gs # "absent"
    /\ data.ca = "dict"
    /\ data.countKind = "int"
    /\ MinGameCount <= data.count /\ data.count <= MaxGameCount
    /\ data.gs = "list"

\* AdaptiveContentAnalyzer._validate_analysis.  An exception raised inside
\* (`in` on a non-container, comparing a str with an int, len(None)) is
\* caught and gives False.
validate_analysis(data) ==
    IF data.top # "dict" THEN FALSE
    ELSE IF data.ca = "absent" \/ data.gs = "absent" THEN FALSE
    ELSE IF data.ca # "dict" THEN FALSE
    ELSE IF data.countKind = "absent" THEN FALSE
    ELSE IF data.countKind # "int" THEN FALSE
    ELSE IF ~(MinGameCount <= data.count /\ data.count <= MaxGameCount) THEN FALSE
    ELSE IF data.gs # "list" THEN FALSE
    ELSE IF Len(data.items) # data.count THEN FALSE
    ELSE TRUE

----------------------------------------------------------------------------
(* Answers of the language model *)

\* the call raises / the answer is not JSON / the answer parses to data
Raised == [kind |-> "raise", data |-> NoAnalysis]

Unparseable == [kind |-> "unparseable", data |-> NoAnalysis]

Parsed(D) == [kind : {"parsed"}, data : D]

AnalyzerResponses(D) == {Raised, Unparseable} \cup Parsed(D)

\* an answer to a synthesis prompt: the call raises, or it returns a text
\* of `raw` characters after strip() that the cleaner turns into `cleaned`
\* characters
RawLens == {0, MinResponseLen - 1, MinResponseLen}

CleanedLens == {MinCleanedLen - 1, MinCleanedLen}

SynthRaised == [kind |-> "raise", raw |-> 0, cleaned |-> 0]

SynthResponses ==
    {SynthRaised} \cup [kind : {"text"}, raw : RawLens, cleaned : CleanedLens]

NoHtml == [kind |-> "none", raw |-> 0, cleaned |-> 0]

\* no raw response has been handed to the sanitizer
NoSan == [stage |-> "none"]

\* no filename is being built
NoFn == [stage |-> "none"]

\* the multi-agent pipeline has not been started
NoMa == [stage |-> "none"]

----------------------------------------------------------------------------
(* AdaptiveContentAnalyzer.run *)

\* what one iteration of the loop does with the answer r:
\* "return" the data, go to the "except" branch, or fall through ("invalid")
AnalyzerBranch(r) ==
    IF r.kind = "raise" THEN "except"
    ELSE IF r.kind = "unparseable" THEN "except"
    ELSE IF validate_analysis(r.data) THEN "return"
    ELSE "invalid"

\* the iteration ends with `await asyncio.sleep(1)` (line 104): only the
\* except branch sleeps, and not in the last iteration
AnalyzerSleeps(b, att) == b = "except" /\ att # max_retries - 1

\* One iteration of `for attempt in range(max_retries)`, with the raise
\* that ends the function when it was the last one.
AnalyzerRun(D) ==
    /\ anStatus = "running"
    /\ anAttempt < max_retries
    /\ \E r \in AnalyzerResponses(D) :
         LET b == AnalyzerBranch(r) IN
         /\ analyzerCalls' = analyzerCalls + 1
         /\ slept' = AnalyzerSleeps(b, anAttempt)
         /\ lastData' = IF r.kind = "parsed" THEN r.data ELSE lastData
         /\ lastVerdict' = IF r.kind = "parsed" THEN validate_analysis(r.data)
                           ELSE lastVerdict
         /\ IF b = "return"
            THEN /\ analysis' = r.data
                 /\ anStatus' = "returned"
                 /\ anAttempt' = anAttempt
            ELSE IF b = "except"
            THEN \* line 102: the last attempt raises, the others sleep
                 /\ analysis' = analysis
                 /\ anStatus' = IF anAttempt = max_retries - 1
                                THEN "raised" ELSE "running"
                 /\ anAttempt' = anAttempt + 1
            ELSE \* validation failed: next iteration, line 106 after the last
                 /\ analysis' = analysis
                 /\ anStatus' = IF anAttempt + 1 < max_retries
                                THEN "running" ELSE "raised"
                 /\ anAttempt' = anAttempt + 1

----------------------------------------------------------------------------
(* EnhancedGameGenerator.run and RobustGameGeneratorAction.run *)

\* a loop that asks again although the answer met the success criteria
SynthBranch_asks_again(r, att) ==
    IF r.kind = "raise"
    THEN IF att = max_retries - 1 THEN "raise" ELSE "sleep"
    ELSE IF r.raw < MinResponseLen
    THEN IF att < max_retries - 1 THEN "continue" ELSE "raise"
    ELSE IF att < max_retries - 1
    THEN "continue"
    ELSE "return"

\* a loop that returns the cleaned text without testing its length
SynthBranch_no_cleaned_test(r, att) ==
    IF r.kind = "raise"
    THEN IF att = max_retries - 1 THEN "raise" ELSE "sleep"
    ELSE IF r.raw < MinResponseLen
    THEN IF att < max_retries - 1 THEN "continue" ELSE "raise"
    ELSE "return"

\* What one iteration of `for attempt in range(max_retries)` does with the
\* answer r: "return" the cleaned text, "continue" (next iteration, no
\* sleep), "sleep" (except branch, then next iteration) or "raise".
\* On a short answer in the last iteration the adaptive generator calls
\* self._create_enhanced_fallback, which no class defines: the
\* AttributeError reaches the except branch of the last iteration, which
\* raises.  The robust generator raises there itself, with the same effect.
SynthBranch(r, att) ==
    IF r.kind = "raise"
    THEN IF att = max_retries - 1 THEN "raise" ELSE "sleep"
    ELSE IF r.raw < MinResponseLen
    THEN IF att < max_retries - 1 THEN "continue" ELSE "raise"
    ELSE IF r.cleaned < MinCleanedLen /\ att < max_retries - 1
    THEN "continue"
    ELSE "return"

\* the iteration ends with `await asyncio.sleep(1)` (adaptive 237, robust
\* 145): only the except branch of an iteration that is not the last
SynthSleeps(b) == b = "sleep"

\* which of the tests of one iteration the answer r fails first
AnswerKind(r) ==
    IF r.kind = "raise" THEN "raise"
    ELSE IF r.raw < MinResponseLen THEN "short"
    ELSE IF r.cleaned < MinCleanedLen THEN "short_cleaned"
    ELSE "ok"

\* the success criteria of one attempt: at least 100 characters before
\* cleaning and at least 200 after
MeetsCriteria(r) ==
    r.kind = "text" /\ r.raw >= MinResponseLen /\ r.cleaned >= MinCleanedLen

----------------------------------------------------------------------------
(* The drivers: AdaptiveGameSystem.generate_adaptive_games and             *)
(* RobustGameGenerator.generate_games_from_json                            *)

NoReport == [written |-> FALSE, requested |-> 0, generated |-> 0, entries |-> <<>>]

\* f"game_{i:02d}_{safe_title}.html": the position number makes it unique
Filename(k) == <<"game", k>>

\* a loop that skips every other entry
NextPosition_skipping(k) == k + 2

\* enumerate(..., 1): the position after position k
NextPosition(k) == k + 1

\* an entry that carries the number 1 whatever the position
GameEntry_unnumbered(k, plan) ==
    [number |-> 1, filename |-> Filename(1), time |-> plan[k], status |-> "success"]

\* the entry appended to successful_games for position k
GameEntry(k, plan) ==
    [number |-> k, filename |-> Filename(k), time |-> plan[k], status |-> "success"]

\* a driver that swallows the analyzer's exception and carries on
AfterAnalyzer_swallowing(st) ==
    IF st = "returned" \/ st = "raised" THEN "setup"
    ELSE "analyze"

\* where the adaptive driver goes when analyzer.run has ended
AfterAnalyzer(st) ==
    IF st = "returned" THEN "setup"
    ELSE IF st = "raised" THEN "done"
    ELSE "analyze"

\* What the caller of the driver sees once the run has taken the path
\* `res`: `return` at line 263, the end of the try block, and the outer
\* `except Exception` (325-326), which only logs, all return None.
OutcomeOf(res) == IF res = "running" THEN "running" ELSE "returned"

Filenames(games) == {games[k].filename : k \in 1..Len(games)}

\* _create_enhanced_index raises: int() of an estimated_time that does not
\* start with an integer token (line 331), or a missing
\* complexity_breakdown (line 520)
IndexRaises(games, an) ==
    \/ \E k \in 1..Len(games) : games[k].time = "badtime"
    \/ an.extras = "noBreakdown"

Init ==
    /\ variant \in {"adaptive", "robust"}
    /\ pc = "load"
    /\ result = "running"
    /\ content \in (IF variant = "adaptive" THEN Contents ELSE {NoContent})
    /\ analysis = NoAnalysis
    /\ lastData = NoAnalysis
    /\ lastVerdict = FALSE
    /\ anStatus = "idle"
    /\ anAttempt = 0
    /\ analyzerCalls = 0
    /\ i = 0
    /\ attempt = 0
    /\ gameCalls = 0
    /\ synthCalls = 0
    /\ html = NoHtml
    /\ met = FALSE
    /\ started = {}
    /\ handled = {}
    /\ files = {}
    /\ successful_games = <<>>
    /\ errLog = {}
    /\ dirCreated = FALSE
    /\ indexRefs = {}
    /\ indexWritten = FALSE
    /\ report = NoReport
    /\ outcome = "running"
    /\ lastKind = "none"
    /\ slept = FALSE
    /\ san = NoSan
    /\ fn = NoFn
    /\ ma = NoMa

analyzerVars == <<analysis, lastData, lastVerdict, anStatus, anAttempt, analyzerCalls>>

synthVars == <<attempt, gameCalls, synthCalls, html, met>>

loopVars == <<i, started, handled, files, successful_games, errLog>>

outVars == <<indexRefs, indexWritten, report>>

\* adaptive, lines 256-263: read the content file, reject short content
LoadContent ==
    /\ pc = "load" /\ variant = "adaptive"
    /\ IF ~content.exists
       THEN /\ result' = "critical" /\ pc' = "done" /\ anStatus' = anStatus
       ELSE IF ContentTooShort(content.text)
       THEN /\ result' = "too_short" /\ pc' = "done" /\ anStatus' = anStatus
       ELSE /\ result' = result /\ pc' = "analyze" /\ anStatus' = "running"
    /\ outcome' = OutcomeOf(result')
    /\ UNCHANGED <<variant, content, analysis, lastData, lastVerdict, anAttempt,
                   analyzerCalls, synthVars, loopVars, dirCreated, outVars,
                   lastKind, slept, san, fn, ma>>

\* adaptive, line 268: analyzer.run; its exception ends the driver (line 325)
Analyze ==
    /\ pc = "analyze"
    /\ AnalyzerRun(DriverData)
    /\ pc' = AfterAnalyzer(anStatus')
    /\ result' = IF anStatus' = "raised" THEN "critical" ELSE result
    /\ outcome' = OutcomeOf(result')
    /\ UNCHANGED <<variant, content, synthVars, loopVars, dirCreated, outVars,
                   lastKind, san, fn, ma>>

\* adaptive, lines 270-282: read the counts, create the output directory
Setup ==
    /\ pc = "setup"
    /\ IF analysis.extras = "noLearningTime"
       THEN /\ result' = "critical" /\ pc' = "done" /\ dirCreated' = dirCreated
       ELSE /\ result' = result /\ pc' = "loop" /\ dirCreated' = TRUE
    /\ outcome' = OutcomeOf(result')
    /\ UNCHANGED <<variant, content, analyzerVars, synthVars, loopVars, outVars,
                   lastKind, slept, san, fn, ma>>

\* robust, lines 165-179: load the plan, create the output directory
LoadJson ==
    /\ pc = "load" /\ variant = "robust"
    /\ \/ /\ result' = "critical" /\ pc' = "done"
          /\ UNCHANGED <<analysis, dirCreated>>
       \/ \E plan \in Plans(0, MaxGames) :
            IF plan = <<>>
            THEN /\ result' = "no_games" /\ pc' = "done"
                 /\ UNCHANGED <<analysis, dirCreated>>
            ELSE /\ result' = result /\ pc' = "loop"
                 /\ analysis' = Data("dict", "absent", "absent", 0, "full", "list", plan)
                 /\ dirCreated' = TRUE
    /\ outcome' = OutcomeOf(result')
    /\ UNCHANGED <<variant, content, lastData, lastVerdict, anStatus, anAttempt,
                   analyzerCalls, synthVars, loopVars, outVars,
                   lastKind, slept, san, fn, ma>>

\* loop header and the logging line before the inner try (adaptive 284-285,
\* robust 181-182): game_spec.get on an entry that is not a dict raises
\* outside the inner try and ends the driver
LoopNext ==
    /\ pc = "loop"
    /\ IF i >= Len(analysis.items)
       THEN /\ pc' = "index"
            /\ UNCHANGED <<result, i, started, attempt, gameCalls, met,
                           lastKind, slept>>
       ELSE LET k == NextPosition(i) IN
            /\ i' = k
            /\ IF k > Len(analysis.items)
               THEN /\ pc' = "index"
                    /\ UNCHANGED <<result, started, attempt, gameCalls, met,
                                   lastKind, slept>>
               ELSE IF analysis.items[k] = "nondict"
               THEN /\ result' = "critical" /\ pc' = "done"
                    /\ UNCHANGED <<started, attempt, gameCalls, met,
                                   lastKind, slept>>
               ELSE /\ result' = result /\ pc' = "synth"
                    /\ started' = started \cup {k}
                    /\ attempt' = 0
                    /\ gameCalls' = 0
                    /\ met' = FALSE
                    /\ lastKind' = "none"
                    /\ slept' = FALSE
    /\ outcome' = OutcomeOf(result')
    /\ UNCHANGED <<variant, content, analyzerVars, synthCalls, html, handled,
                   files, successful_games, errLog, dirCreated, outVars, san, fn, ma>>

\* one iteration of the synthesizer's loop; its exception is caught by the
\* driver's inner except (adaptive 312, robust 206)
Synth ==
    /\ pc = "synth"
    /\ attempt < max_retries
    /\ \E r \in SynthResponses :
         LET b == SynthBranch(r, attempt) IN
         /\ gameCalls' = gameCalls + 1
         /\ synthCalls' = synthCalls + 1
         /\ met' = MeetsCriteria(r)
         /\ lastKind' = AnswerKind(r)
         /\ slept' = SynthSleeps(b)
         /\ IF b = "return"
            THEN /\ html' = [kind |-> "html", raw |-> r.raw, cleaned |-> r.cleaned]
                 /\ pc' = "save"
                 /\ UNCHANGED <<attempt, handled, errLog>>
            ELSE IF b = "raise"
            THEN /\ pc' = "loop"
                 /\ handled' = handled \cup {i}
                 /\ errLog' = errLog \cup {<<i, "synth">>}
                 /\ UNCHANGED <<attempt, html>>
            ELSE /\ pc' = "synth"
                 /\ attempt' = attempt + 1
                 /\ UNCHANGED <<html, handled, errLog>>
    /\ UNCHANGED <<variant, result, content, analyzerVars, i, started, files,
                   successful_games, dirCreated, outVars, outcome, san, fn, ma>>

\* adaptive 291-310, robust 188-204: write the game file, record the game
SaveGame ==
    /\ pc = "save"
    /\ \E written \in BOOLEAN :
         IF written
         THEN /\ files' = files \cup {Filename(i)}
              /\ successful_games' = Append(successful_games, GameEntry(i, analysis.items))
              /\ errLog' = errLog
         ELSE /\ errLog' = errLog \cup {<<i, "write">>}
              /\ UNCHANGED <<files, successful_games>>
    /\ handled' = handled \cup {i}
    /\ pc' = "loop"
    /\ UNCHANGED <<variant, result, content, analyzerVars, synthVars, i, started,
                   dirCreated, outVars, outcome, lastKind, slept, san, fn, ma>>

\* adaptive 317 (_create_enhanced_index), robust 210 (_create_simple_index)
CreateIndex ==
    /\ pc = "index"
    /\ IF variant = "adaptive" /\ IndexRaises(successful_games, analysis)
       THEN /\ result' = "critical" /\ pc' = "done"
            /\ UNCHANGED <<indexRefs, indexWritten>>
       ELSE /\ indexRefs' = Filenames(successful_games)
            /\ indexWritten' = TRUE
            /\ pc' = IF variant = "adaptive" THEN "report" ELSE "done"
            /\ result' = IF variant = "adaptive" THEN result ELSE "complete"
    /\ outcome' = OutcomeOf(result')
    /\ UNCHANGED <<variant, content, analyzerVars, synthVars, loopVars,
                   dirCreated, report, lastKind, slept, san, fn, ma>>

\* adaptive 318 (_save_analysis_report)
SaveReport ==
    /\ pc = "report"
    /\ report' = [written |-> TRUE,
                  requested |-> analysis.count,
                  generated |-> Len(successful_games),
                  entries |-> successful_games]
    /\ pc' = "done"
    /\ result' = "complete"
    /\ outcome' = OutcomeOf(result')
    /\ UNCHANGED <<variant, content, analyzerVars, synthVars, loopVars,
                   dirCreated, indexRefs, indexWritten, lastKind, slept, san, fn, ma>>

Next ==
    \/ LoadContent
    \/ Analyze
    \/ Setup
    \/ LoadJson
    \/ LoopNext
    \/ Synth
    \/ SaveGame
    \/ CreateIndex
    \/ SaveReport

Spec == Init /\ [][Next]_vars

----------------------------------------------------------------------------
(* AdaptiveContentAnalyzer.run on its own, over a wide range of results *)

InitAnalyzer ==
    /\ variant = "adaptive"
    /\ pc = "analyzer"
    /\ result = "running"
    /\ content = NoContent
    /\ analysis = NoAnalysis
    /\ lastData = NoAnalysis
    /\ lastVerdict = FALSE
    /\ anStatus = "running"
    /\ anAttempt = 0
    /\ analyzerCalls = 0
    /\ i = 0
    /\ attempt = 0
    /\ gameCalls = 0
    /\ synthCalls = 0
    /\ html = NoHtml
    /\ met = FALSE
    /\ started = {}
    /\ handled = {}
    /\ files = {}
    /\ successful_games = <<>>
    /\ errLog = {}
    /\ dirCreated = FALSE
    /\ indexRefs = {}
    /\ indexWritten = FALSE
    /\ report = NoReport
    /\ outcome = "running"
    /\ lastKind = "none"
    /\ slept = FALSE
    /\ san = NoSan
    /\ fn = NoFn
    /\ ma = NoMa

AnalyzerAlone ==
    /\ pc = "analyzer"
    /\ AnalyzerRun(WideData)
    /\ UNCHANGED <<variant, pc, result, content, synthVars, loopVars,
                   dirCreated, outVars, outcome, lastKind, san, fn, ma>>

NextAnalyzer == AnalyzerAlone

SpecAnalyzer == InitAnalyzer /\ [][NextAnalyzer]_vars

----------------------------------------------------------------------------
(* FixedCodeCleaner.  A response is a sequence of tokens, each standing for
   a fixed piece of text:
     F  ```      html  html     HTML  HTML     NL  newline     SP  blank
     DT <!DOCTYPE html>   HO <html>   HC </html>   HL <html lang="en">
     BO <body>   BA <BODY class="x">   H1  <h1  (a tag cut short)
     X  a run of letters x, of any length
     EH the <head>...</head> and <body> lines of the emergency shell
     BC </body>
   The regular expressions are evaluated on the tokens as Python's re.sub
   evaluates them on the text the tokens spell.                            *)

MaxLen == 4
MaxDoc == 2

Alphabet == {"F", "html", "NL", "SP", "DT", "HO", "HC", "BO", "BA", "X", "H1"}
Whitespace == {"NL", "SP"}
HtmlWord == {"html", "HTML"}
Letters == {"html", "HTML", "X"}
HtmlOpenTags == {"HO", "HL"}

Strings(A, n) == UNION {[1..k -> A] : k \in 0..n}

\* str.strip()
RECURSIVE LStripToks(_)
LStripToks(s) ==
    IF s # <<>> /\ Head(s) \in Whitespace THEN LStripToks(Tail(s)) ELSE s

RECURSIVE RStripToks(_)
RStripToks(s) ==
    IF s # <<>> /\ s[Len(s)] \in Whitespace
    THEN RStripToks(SubSeq(s, 1, Len(s) - 1))
    ELSE s

strip(s) == RStripToks(LStripToks(s))

\* \s* from position q: the first position at or after q that holds no
\* whitespace
RECURSIVE WsEnd(_, _)
WsEnd(s, q) ==
    IF q <= Len(s) /\ s[q] \in Whitespace THEN WsEnd(s, q + 1) ELSE q

\* ^ under re.MULTILINE
LineStart(s, p) == p = 1 \/ s[p - 1] = "NL"

\* the opening patterns compared letter for letter, without re.IGNORECASE
OpenLen_case_sensitive(s, p, pat) ==
    IF ~LineStart(s, p) THEN 0
    ELSE IF pat = 1
    THEN IF p + 1 <= Len(s) /\ s[p] = "F" /\ s[p + 1] = "html" THEN 2 ELSE 0
    ELSE IF pat = 2
    THEN IF s[p] = "F" THEN 1 ELSE 0
    ELSE IF s[p] = "html" THEN 1 ELSE 0

\* Number of tokens that the fixed part of an opening pattern matches at p:
\* pattern 1 is ^```html, pattern 2 is ^```, pattern 5 is ^html.
OpenLen(s, p, pat) ==
    IF ~LineStart(s, p) THEN 0
    ELSE IF pat = 1
    THEN IF p + 1 <= Len(s) /\ s[p] = "F" /\ s[p + 1] \in HtmlWord THEN 2 ELSE 0
    ELSE IF pat = 2
    THEN IF s[p] = "F" THEN 1 ELSE 0
    ELSE IF s[p] \in HtmlWord THEN 1 ELSE 0

RECURSIVE LastNewline(_, _, _)
LastNewline(s, q, f) ==
    IF q < f THEN 0
    ELSE IF s[q] = "NL" THEN q
    ELSE LastNewline(s, q - 1, f)

\* \s*$ under re.MULTILINE from position f: the whole run of whitespace
\* when it reaches the end of the text, else the run up to its last
\* newline; 0 when there is no match.
CloseTail(s, f) ==
    LET r == WsEnd(s, f)
    IN  IF r = Len(s) + 1 THEN r ELSE LastNewline(s, r - 1, f)

\* Where a match of a closing pattern at p ends: pattern 3 is \n?```\s*$,
\* pattern 4 is ```\s*$.
CloseEnd(s, p, pat) ==
    LET viaNewline ==
            IF pat = 3 /\ s[p] = "NL" /\ p + 1 <= Len(s) /\ s[p + 1] = "F"
            THEN CloseTail(s, p + 2)
            ELSE 0
    IN  IF viaNewline > 0 THEN viaNewline
        ELSE IF s[p] = "F" THEN CloseTail(s, p + 1)
        ELSE 0

\* Where a match of pattern pat at p ends, 0 when there is none
MatchEnd(s, p, pat) ==
    IF pat \in {3, 4} THEN CloseEnd(s, p, pat)
    ELSE LET n == OpenLen(s, p, pat)
         IN  IF n = 0 THEN 0 ELSE WsEnd(s, p + n)

RECURSIVE SubFrom(_, _, _)
SubFrom(s, p, pat) ==
    IF p > Len(s) THEN <<>>
    ELSE LET e == MatchEnd(s, p, pat)
         IN  IF e > 0 THEN SubFrom(s, e, pat)
             ELSE <<s[p]>> \o SubFrom(s, p + 1, pat)

\* re.sub(pattern, '', cleaned, flags=re.MULTILINE | re.IGNORECASE)
re_sub(pat, s) == SubFrom(s, 1, pat)

\* strip, the five substitutions in the order of the list, strip
RemoveFences(s) ==
    strip(re_sub(5, re_sub(4, re_sub(3, re_sub(2, re_sub(1, strip(s)))))))

StartsWithDoctype(s) == s # <<>> /\ s[1] = "DT"

\* re.search(r'<html[^>]*>', cleaned, re.IGNORECASE): start of the first
\* match, 0 when there is none
html_match(s) ==
    LET K == {k \in 1..Len(s) : s[k] \in HtmlOpenTags}
    IN  IF K = {} THEN 0 ELSE CHOOSE k \in K : \A j \in K : k <= j

\* '<head>' in cleaned.lower() or '<body>' in cleaned.lower()
HasBareHeadOrBody(s) == \E k \in 1..Len(s) : s[k] \in {"BO", "EH"}

EnsureDoctype(s) ==
    IF StartsWithDoctype(s) THEN s
    ELSE IF html_match(s) > 0
    THEN <<"DT", "NL">> \o SubSeq(s, html_match(s), Len(s))
    ELSE IF HasBareHeadOrBody(s)
    THEN <<"DT", "NL", "HL", "NL">> \o s \o <<"NL", "HC">>
    ELSE s

Indicator(b) == IF b THEN 1 ELSE 0

\* a validation that asks for 3 of the 5 indicators
lenient_html_validation_three(s) ==
    LET has(T) == \E k \in 1..Len(s) : s[k] \in T
    IN  Indicator(has({"DT"})) + Indicator(has(HtmlOpenTags))
          + Indicator(has({"EH"})) + Indicator(has({"BO", "BA", "EH"}))
          + Indicator(has({"EH"})) >= 3

lenient_html_validation(s) ==
    LET has(T) == \E k \in 1..Len(s) : s[k] \in T
    IN  Indicator(has({"DT"})) + Indicator(has(HtmlOpenTags))
          + Indicator(has({"EH"})) + Indicator(has({"BO", "BA", "EH"}))
          + Indicator(has({"EH"})) >= 2

\* html.split('\n')
RECURSIVE SplitLines(_)
SplitLines(s) ==
    LET K == {k \in 1..Len(s) : s[k] = "NL"}
    IN  IF K = {} THEN <<s>>
        ELSE LET k == CHOOSE x \in K : \A j \in K : x <= j
             IN  <<SubSeq(s, 1, k - 1)>> \o SplitLines(SubSeq(s, k + 1, Len(s)))

RECURSIVE RStripSpaces(_)
RStripSpaces(l) ==
    IF l # <<>> /\ l[Len(l)] = "SP"
    THEN RStripSpaces(SubSeq(l, 1, Len(l) - 1))
    ELSE l

NonBlank(l) == \E k \in 1..Len(l) : l[k] # "SP"

\* '\n'.join(lines)
RECURSIVE JoinLines(_)
JoinLines(ls) ==
    IF ls = <<>> THEN <<>>
    ELSE IF Len(ls) = 1 THEN ls[1]
    ELSE ls[1] \o <<"NL">> \o JoinLines(Tail(ls))

format_html(s) ==
    LET kept == SelectSeq(SplitLines(s), NonBlank)
    IN  JoinLines([k \in 1..Len(kept) |-> RStripSpaces(kept[k])])

\* What a call gives back: a string, or an exception.
StrResult(s, w) == [kind |-> "str", toks |-> s, warned |-> w]
RaisedResult == [kind |-> "raised", toks |-> <<>>, warned |-> FALSE]
NoResult == [kind |-> "none", toks |-> <<>>, warned |-> FALSE]

\* the cleaned response has not been handed back to the synthesizer
NoTry == [att |-> 0, response |-> SynthRaised, branch |-> "none"]

\* a value that is no string (None): .strip() raises AttributeError
NotAString == [str |-> FALSE, toks |-> <<>>]
StrInput(s) == [str |-> TRUE, toks |-> s]

RECURSIVE DropFences(_, _)
DropFences(s, p) ==
    IF p > Len(s) THEN <<>>
    ELSE IF s[p] = "F"
    THEN LET RECURSIVE LettersEnd(_)
             LettersEnd(q) ==
                 IF q <= Len(s) /\ s[q] \in Letters THEN LettersEnd(q + 1) ELSE q
         IN  DropFences(s, WsEnd(s, LettersEnd(p + 1)))
    ELSE <<s[p]>> \o DropFences(s, p + 1)

emergency_cleanup(v) ==
    IF ~v.str THEN RaisedResult
    ELSE LET cleaned == DropFences(strip(v.toks), 1)
             looksLikeHtml == \E k \in 1..Len(cleaned) : cleaned[k] = "H1"
         IN  IF looksLikeHtml /\ ~StartsWithDoctype(cleaned)
             THEN StrResult(<<"DT", "NL", "HL", "NL", "EH", "NL">> \o cleaned
                              \o <<"NL", "BC", "NL", "HC">>, FALSE)
             ELSE StrResult(cleaned, FALSE)

\* a cleaner that raises ValidationError when the validation fails
clean_html_response_validating(v) ==
    IF ~v.str THEN emergency_cleanup(v)
    ELSE LET cleaned == EnsureDoctype(RemoveFences(v.toks))
         IN  IF lenient_html_validation(cleaned)
             THEN StrResult(format_html(cleaned), FALSE)
             ELSE RaisedResult

clean_html_response(v) ==
    IF ~v.str THEN emergency_cleanup(v)
    ELSE LET cleaned == EnsureDoctype(RemoveFences(v.toks))
         IN  StrResult(format_html(cleaned), ~lenient_html_validation(cleaned))

\* A document that begins with the doctype, inside a code fence: the
\* opening fence bare or with the language tag in either case, with or
\* without a newline after it; a closing fence on the last line or on a
\* line of its own; the document and the closing fence indented as in the
\* self-test.
FenceOpens ==
    {<<"F">>, <<"F", "NL">>, <<"F", "html">>, <<"F", "html", "NL">>,
     <<"F", "HTML">>, <<"F", "HTML", "NL">>, <<"F", "html", "NL", "SP">>}
FenceCloses == {<<"F">>, <<"NL", "F">>, <<"NL", "SP", "F">>}
DocTokens == {"NL", "SP", "HO", "BO", "X", "html"}
Documents == {<<"DT">> \o b : b \in Strings(DocTokens, MaxDoc)}
FencedDocuments ==
    {o \o d \o c : o \in FenceOpens, d \in Documents, c \in FenceCloses}

\* A document without any fence: the doctype on the first line, </html> on
\* the last line, and lines between them.
PlainDocuments ==
    {<<"DT", "NL">> \o b \o <<"NL", "HC">> : b \in Strings(DocTokens, MaxDoc)}

CleanerInputs ==
    {StrInput(s) : s \in Strings(Alphabet, MaxLen) \cup FencedDocuments
                            \cup PlainDocuments}
        \cup {NotAString}

InitCleaner ==
    /\ variant = "adaptive"
    /\ pc = "cleaner"
    /\ result = "running"
    /\ content = NoContent
    /\ analysis = NoAnalysis
    /\ lastData = NoAnalysis
    /\ lastVerdict = FALSE
    /\ anStatus = "running"
    /\ anAttempt = 0
    /\ analyzerCalls = 0
    /\ i = 0
    /\ attempt = 0
    /\ gameCalls = 0
    /\ synthCalls = 0
    /\ html = NoHtml
    /\ met = FALSE
    /\ started = {}
    /\ handled = {}
    /\ files = {}
    /\ successful_games = <<>>
    /\ errLog = {}
    /\ dirCreated = FALSE
    /\ indexRefs = {}
    /\ indexWritten = FALSE
    /\ report = NoReport
    /\ outcome = "running"
    /\ lastKind = "none"
    /\ slept = FALSE
    /\ \E v \in CleanerInputs :
         san = [stage |-> "raw", raw |-> v, once |-> NoResult,
                twice |-> NoResult, emergency |-> NoResult,
                tried |-> NoTry]
    /\ fn = NoFn
    /\ ma = NoMa

notSan == <<variant, pc, result, content, analysis, lastData, lastVerdict,
            anStatus, anAttempt, analyzerCalls, i, attempt, gameCalls,
            synthCalls, html, met, started, handled, files,
            successful_games, errLog, dirCreated, indexRefs, indexWritten,
            report, outcome, lastKind, slept, fn, ma>>

\* clean_html_response(raw_response)
Clean ==
    /\ san.stage = "raw"
    /\ san' = [san EXCEPT !.stage = "once",
                          !.once = clean_html_response(san.raw)]
    /\ UNCHANGED notSan

\* clean_html_response applied to the string it returned
CleanAgain ==
    /\ san.stage = "once"
    /\ san.once.kind = "str"
    /\ san' = [san EXCEPT !.stage = "twice",
                          !.twice = clean_html_response(StrInput(san.once.toks))]
    /\ UNCHANGED notSan

\* _emergency_cleanup(raw_response)
Emergency ==
    /\ san.stage = "raw"
    /\ san' = [san EXCEPT !.stage = "emergency",
                          !.emergency = emergency_cleanup(san.raw)]
    /\ UNCHANGED notSan

\* The rest of one attempt of EnhancedGameGenerator.run (lines 225-231) on
\* the cleaned response, in iteration att.  The response had at least 100
\* characters, so it holds a run of text; the cleaned text has 200
\* characters or more only when that run is still in it.
Try ==
    /\ san.stage = "once"
    /\ san.once.kind = "str"
    /\ \E k \in 1..Len(san.raw.toks) : san.raw.toks[k] = "X"
    /\ \E att \in 0..(max_retries - 1), len \in CleanedLens :
         LET r == [kind |-> "text", raw |-> MinResponseLen, cleaned |-> len] IN
         /\ len >= MinCleanedLen
               => \E k \in 1..Len(san.once.toks) : san.once.toks[k] = "X"
         /\ san' = [san EXCEPT !.stage = "tried",
                               !.tried = [att |-> att, response |-> r,
                                          branch |-> SynthBranch(r, att)]]
    /\ UNCHANGED notSan

NextCleaner == Clean \/ CleanAgain \/ Emergency \/ Try

SpecCleaner == InitCleaner /\ [][NextCleaner]_vars

----------------------------------------------------------------------------
(* Game filenames (adaptive 291-294, robust 188-191, multi-agent 411-413).
   A title is a sequence of characters, each one of the classes
     A  alphanumeric     SP  space     -  hyphen     _  underscore
     !  punctuation      TAB whitespace other than a space               *)

MaxTitle == 4

TitleChars == {"A", "SP", "-", "_", "!", "TAB"}

Titles == Strings(TitleChars, MaxTitle)

\* positions around the changes of width of the number
Positions == {1, 9, 10, MaxGameCount, 99, 100}

\* c.isalnum() or c in (' ', '-', '_')
KeptChar(c) == c \in {"A", "SP", "-", "_"}

RECURSIVE LStripTitle(_)
LStripTitle(t) ==
    IF t # <<>> /\ Head(t) \in {"SP", "TAB"} THEN LStripTitle(Tail(t)) ELSE t

RECURSIVE RStripTitle(_)
RStripTitle(t) ==
    IF t # <<>> /\ t[Len(t)] \in {"SP", "TAB"}
    THEN RStripTitle(SubSeq(t, 1, Len(t) - 1))
    ELSE t

\* a slug that keeps every character of the title
safe_title_unfiltered(title) == RStripTitle(LStripTitle(title))

\* "".join(c for c in title if c.isalnum() or c in (' ', '-', '_')).strip()
safe_title(title) == RStripTitle(LStripTitle(SelectSeq(title, KeptChar)))

\* safe_title.replace(' ', '_')
ReplaceSpaces(t) == [k \in 1..Len(t) |-> IF t[k] = "SP" THEN "_" ELSE t[k]]

DigitChars == <<"0", "1", "2", "3", "4", "5", "6", "7", "8", "9">>

RECURSIVE Decimal(_)
\* str(n) for n >= 0
Decimal(n) ==
    IF n < 10 THEN <<DigitChars[n + 1]>>
    ELSE Decimal(n \div 10) \o <<DigitChars[(n % 10) + 1]>>

\* f"{i:02d}": zero-padded to a width of at least 2
Format02d(n) == IF n < 10 THEN <<"0">> \o Decimal(n) ELSE Decimal(n)

\* f"game_{i:02d}_{safe_title.replace(' ', '_')}.html"
GameFilename(k, title) ==
    <<"game_">> \o Format02d(k) \o <<"_">>
        \o ReplaceSpaces(safe_title(title)) \o <<".html">>

InitFilename ==
    /\ variant = "adaptive"
    /\ pc = "filename"
    /\ result = "running"
    /\ content = NoContent
    /\ analysis = NoAnalysis
    /\ lastData = NoAnalysis
    /\ lastVerdict = FALSE
    /\ anStatus = "running"
    /\ anAttempt = 0
    /\ analyzerCalls = 0
    /\ i = 0
    /\ attempt = 0
    /\ gameCalls = 0
    /\ synthCalls = 0
    /\ html = NoHtml
    /\ met = FALSE
    /\ started = {}
    /\ handled = {}
    /\ files = {}
    /\ successful_games = <<>>
    /\ errLog = {}
    /\ dirCreated = FALSE
    /\ indexRefs = {}
    /\ indexWritten = FALSE
    /\ report = NoReport
    /\ outcome = "running"
    /\ lastKind = "none"
    /\ slept = FALSE
    /\ san = NoSan
    /\ ma = NoMa
    /\ \E t \in Titles, k \in Positions :
         fn = [stage |-> "title", title |-> t, pos |-> k, name |-> <<>>]

notFn == <<variant, pc, result, content, analysis, lastData, lastVerdict,
           anStatus, anAttempt, analyzerCalls, i, attempt, gameCalls,
           synthCalls, html, met, started, handled, files,
           successful_games, errLog, dirCreated, indexRefs, indexWritten,
           report, outcome, lastKind, slept, san, ma>>

\* lines 291-294: the filename of the game at position fn.pos
MakeFilename ==
    /\ fn.stage = "title"
    /\ fn' = [fn EXCEPT !.stage = "named",
                        !.name = GameFilename(fn.pos, fn.title)]
    /\ UNCHANGED notFn

NextFilename == MakeFilename

SpecFilename == InitFilename /\ [][NextFilename]_vars

----------------------------------------------------------------------------
(* multi_agent_game_system.py: parse_json_response.  A response is a
   sequence of tokens, each standing for a fixed piece of text:
     {  }  [  ]  ,         the JSON punctuation
     NL newline            X   a word of prose (Here)
     FJ ```json            FJU ```JSON          F  ```
     p   "total_concepts": 3              t  "title": "T"
     pvT "passes_validation": true        pvF "passes_validation": false
     ca  "content_analysis":              gs  "game_specifications":
   p, t, pvT and pvF are members with a scalar value; ca and gs are keys
   whose value follows.                                                    *)

MaxJson == 3
MaxSpecs == 2

JsonTokens == {"{", "}", "[", "]", ",", "NL", "X", "FJ", "FJU", "F",
               "p", "t", "pvT", "pvF", "ca", "gs"}
Pairs == {"p", "t", "pvT", "pvF"}
Keys == {"ca", "gs"}
JsonFences == {"FJ", "FJU"}
AnyFence == {"F", "FJ", "FJU"}

RECURSIVE ParseValue(_, _), ParseMembers(_, _), ParseElements(_, _)

\* the JSON decoder on s from position p: the position after the value
\* that starts at p, 0 when there is none
ParseValue(s, p) ==
    IF p > Len(s) THEN 0
    ELSE IF s[p] = "{"
    THEN IF p + 1 <= Len(s) /\ s[p + 1] = "}" THEN p + 2
         ELSE ParseMembers(s, p + 1)
    ELSE IF s[p] = "["
    THEN IF p + 1 <= Len(s) /\ s[p + 1] = "]" THEN p + 2
         ELSE ParseElements(s, p + 1)
    ELSE 0

\* after a member or an element that ends before r: a comma and the next
\* one, or the closing token
AfterItem(s, r, close) ==
    IF r = 0 \/ r > Len(s) THEN 0
    ELSE IF s[r] = "," THEN -1
    ELSE IF s[r] = close THEN r + 1
    ELSE 0

ParseMembers(s, q) ==
    IF q > Len(s) THEN 0
    ELSE LET r == IF s[q] \in Pairs THEN q + 1
                  ELSE IF s[q] \in Keys THEN ParseValue(s, q + 1)
                  ELSE 0
             a == AfterItem(s, r, "}")
         IN  IF a = -1 THEN ParseMembers(s, r + 1) ELSE a

ParseElements(s, q) ==
    LET r == ParseValue(s, q)
        a == AfterItem(s, r, "]")
    IN  IF a = -1 THEN ParseElements(s, r + 1) ELSE a

\* whitespace between the tokens of a JSON text is skipped
WithoutNewlines(s) == SelectSeq(s, LAMBDA x : x # "NL")

\* json.loads(text) succeeds
Decodes(s) ==
    LET t == WithoutNewlines(s)
    IN  t # <<>> /\ ParseValue(t, 1) = Len(t) + 1

First(K) == CHOOSE k \in K : \A j \in K : k <= j

\* re.search(r"```json\s*\n?(.*?)\n?```", rsp, re.DOTALL | re.IGNORECASE):
\* group 1, between the first json fence and the first fence after it
FencedText(s) ==
    LET P == {k \in 1..Len(s) : s[k] \in JsonFences}
    IN  IF P = {} THEN [found |-> FALSE, text |-> <<>>]
        ELSE LET E == {k \in (First(P) + 1)..Len(s) : s[k] \in AnyFence}
             IN  IF E = {} THEN [found |-> FALSE, text |-> <<>>]
                 ELSE [found |-> TRUE,
                       text |-> SubSeq(s, First(P) + 1, First(E) - 1)]

\* re.search(r"\{.*?\}", rsp, re.DOTALL): from the first { to the first }
\* after it; the whole response when there is no match
BareText(s) ==
    LET O == {k \in 1..Len(s) : s[k] = "{"}
    IN  IF O = {} THEN s
        ELSE LET C == {k \in (First(O) + 1)..Len(s) : s[k] = "}"}
             IN  IF C = {} THEN s ELSE SubSeq(s, First(O), First(C))

JsonValue(s) == [kind |-> "value", toks |-> WithoutNewlines(s)]

\* {"error": "Failed to parse JSON", "raw_response": rsp}
ErrorStructure(rsp) == [kind |-> "error", toks |-> rsp]

parse_json_response(rsp) ==
    LET m == FencedText(rsp)
        json_text == IF m.found THEN m.text ELSE BareText(rsp)
    IN  IF Decodes(json_text) THEN JsonValue(json_text)
        ELSE ErrorStructure(rsp)

----------------------------------------------------------------------------
(* multi_agent_game_system.py: the four roles and _save_games.  The roles
   act in the order of their subscriptions: ContentAnalyst, GameDesigner,
   GameDeveloper, GameValidator; an exception raised in a role ends
   team.run and generate_educational_games, which has no handler.         *)

\* number of brackets that are open before position k
Depth(s, k) ==
    Cardinality({j \in 1..(k - 1) : s[j] \in {"{", "["}})
        - Cardinality({j \in 1..(k - 1) : s[j] \in {"}", "]"}})

Last(K) == CHOOSE k \in K : \A j \in K : j <= k

\* the elements of K in increasing order
Ordered(K) ==
    [n \in 1..Cardinality(K) |->
        CHOOSE k \in K : Cardinality({j \in K : j < k}) = n - 1]

\* d.get(...) raises AttributeError: the decoded value is a list
IsList(v) == v.kind = "value" /\ v.toks[1] = "["

\* what GameDeveloper reads of one entry: a dict with a title, a dict
\* without one, or no dict
EntryKind(s, k, inList) ==
    IF inList /\ s[k] = "{"
    THEN IF \E j \in (k + 1)..(ParseValue(s, k) - 1) :
                s[j] = "t" /\ Depth(s, j) = Depth(s, k) + 1
         THEN "titled" ELSE "untitled"
    ELSE "nondict"

\* analysis_data.get("game_specifications", []), as the sequence that
\* enumerate() runs through: the elements of a list, the keys of a dict
game_specifications(v) ==
    IF v.kind = "error" THEN [present |-> FALSE, specs |-> <<>>]
    ELSE LET s == v.toks
             G == {k \in 1..Len(s) : s[k] = "gs" /\ Depth(s, k) = 1}
         IN  IF G = {} THEN [present |-> FALSE, specs |-> <<>>]
             ELSE LET g == Last(G)
                      inList == s[g + 1] = "["
                      E == {k \in (g + 2)..(ParseValue(s, g + 1) - 2) :
                              /\ Depth(s, k) = 2
                              /\ IF inList THEN s[k] \in {"{", "["}
                                 ELSE s[k] \in Pairs \cup Keys}
                      pos == Ordered(E)
                  IN  [present |-> inList,
                       specs |-> [n \in 1..Len(pos) |-> EntryKind(s, pos[n], inList)]]

\* validation.get("passes_validation", True)
passes_validation(v) ==
    IF v.kind = "error" THEN TRUE
    ELSE LET s == v.toks
             P == {k \in 1..Len(s) : s[k] \in {"pvT", "pvF"} /\ Depth(s, k) = 1}
         IN  IF P = {} THEN TRUE ELSE s[Last(P)] = "pvT"

\* the analysis the prompt asks for, with one specification per entry of
\* titled: an entry with a title (TRUE) or without (FALSE)
RECURSIVE SpecList(_)
SpecList(titled) ==
    IF titled = <<>> THEN <<>>
    ELSE <<"{", IF Head(titled) THEN "t" ELSE "p", "}">>
           \o (IF Len(titled) > 1 THEN <<",">> ELSE <<>>)
           \o SpecList(Tail(titled))

AnalysisObject(titled) ==
    <<"{", "ca", "{", "p", "}", ",", "gs", "[">> \o SpecList(titled) \o <<"]", "}">>

JsonObjects ==
    {AnalysisObject(t) : t \in UNION {[1..n -> BOOLEAN] : n \in 0..MaxSpecs}}
      \cup {<<"{", "p", "}">>, <<"{", "gs", "[", "]", "}">>,
            <<"{", "NL", "p", ",", "NL", "t", "NL", "}">>}

\* an object bare, in a json fence, after a sentence of prose
Wrapped(o) ==
    {o, <<"FJ", "NL">> \o o \o <<"NL", "F">>, <<"FJ">> \o o \o <<"F">>,
     <<"FJU", "NL">> \o o \o <<"NL", "F">>, <<"X", "NL">> \o o}

FreeTokens == {"{", "}", "[", "]", ",", "p", "gs", "X", "FJ", "F", "NL"}

AnalysisAnswers ==
    UNION {Wrapped(o) : o \in JsonObjects} \cup Strings(FreeTokens, MaxJson)

ValidationAnswers ==
    {<<"{", "p", ",", "pvT", "}">>,
     <<"{", "p", ",", "pvF", "}">>,
     <<"FJ", "NL", "{", "pvF", "}", "NL", "F">>,
     <<"{", "p", "}">>,
     <<"X", "X">>,
     <<"{", "pvF", ",", "ca", "{", "p", "}", "}">>,
     <<"[", "]">>}

NoValue == [kind |-> "none", toks |-> <<>>]

InitMulti ==
    /\ variant = "multi"
    /\ pc = "multi"
    /\ result = "running"
    /\ content = NoContent
    /\ analysis = NoAnalysis
    /\ lastData = NoAnalysis
    /\ lastVerdict = FALSE
    /\ anStatus = "running"
    /\ anAttempt = 0
    /\ analyzerCalls = 0
    /\ i = 0
    /\ attempt = 0
    /\ gameCalls = 0
    /\ synthCalls = 0
    /\ html = NoHtml
    /\ met = FALSE
    /\ started = {}
    /\ handled = {}
    /\ files = {}
    /\ successful_games = <<>>
    /\ errLog = {}
    /\ dirCreated = FALSE
    /\ indexRefs = {}
    /\ indexWritten = FALSE
    /\ report = NoReport
    /\ outcome = "running"
    /\ lastKind = "none"
    /\ slept = FALSE
    /\ san = NoSan
    /\ fn = NoFn
    /\ ma = [stage |-> "start", rsp |-> <<>>, parsed |-> NoValue,
             specs |-> <<>>, games |-> 0, results |-> <<>>, files |-> {},
             indexWritten |-> FALSE, indexRefs |-> {}, ended |-> "running"]

notMa == <<variant, pc, result, content, analysis, lastData, lastVerdict,
           anStatus, anAttempt, analyzerCalls, i, attempt, gameCalls,
           synthCalls, html, met, started, handled, files,
           successful_games, errLog, dirCreated, indexRefs, indexWritten,
           report, outcome, lastKind, slept, san, fn>>

\* ContentAnalyst: AnalyzeContent.run returns the model's answer as it is
MaAnalyze ==
    /\ ma.stage = "start"
    /\ \E rsp \in AnalysisAnswers :
         ma' = [ma EXCEPT !.stage = "analysed", !.rsp = rsp]
    /\ UNCHANGED notMa

\* GameDesigner._act: one prompt per entry of game_specifications
MaDesign ==
    /\ ma.stage = "analysed"
    /\ LET analysis_data == parse_json_response(ma.rsp) IN
       IF IsList(analysis_data)
       THEN ma' = [ma EXCEPT !.stage = "failed", !.parsed = analysis_data,
                             !.ended = "raised"]
       ELSE ma' = [ma EXCEPT !.stage = "designed", !.parsed = analysis_data,
                             !.specs = game_specifications(analysis_data).specs]
    /\ UNCHANGED notMa

\* GameDeveloper._act: one game per prompt; prompt_data['spec']['title']
\* raises on an entry without a title
MaDevelop ==
    /\ ma.stage = "designed"
    /\ IF \E k \in 1..Len(ma.specs) : ma.specs[k] # "titled"
       THEN ma' = [ma EXCEPT !.stage = "failed", !.ended = "raised",
                             !.games = First({k \in 1..Len(ma.specs) :
                                                ma.specs[k] # "titled"}) - 1]
       ELSE ma' = [ma EXCEPT !.stage = "developed", !.games = Len(ma.specs)]
    /\ UNCHANGED notMa

\* GameValidator._act: one validation per game
MaValidate ==
    /\ ma.stage = "developed"
    /\ \E answers \in [1..ma.games -> ValidationAnswers] :
         ma' = [ma EXCEPT !.stage = "validated",
                          !.results = [k \in 1..ma.games |->
                              [rsp |-> answers[k],
                               validation |-> parse_json_response(answers[k])]]]
    /\ UNCHANGED notMa

\* _save_games: the games whose validation passes are written, then the
\* index; an exception ends the function without the index
MaSave ==
    /\ ma.stage = "validated"
    /\ LET bad == {k \in 1..Len(ma.results) : IsList(ma.results[k].validation)}
           upto == IF bad = {} THEN Len(ma.results) ELSE First(bad) - 1
           written == {k \in 1..upto : passes_validation(ma.results[k].validation)}
       IN  ma' = [ma EXCEPT !.stage = "saved",
                            !.files = written,
                            !.indexWritten = (bad = {}),
                            !.indexRefs = IF bad = {} THEN written ELSE {},
                            !.ended = "returned"]
    /\ UNCHANGED notMa

NextMulti == MaAnalyze \/ MaDesign \/ MaDevelop \/ MaValidate \/ MaSave

SpecMulti == InitMulti /\ [][NextMulti]_vars

----------------------------------------------------------------------------
(* Properties *)

PlanLen == Len(analysis.items)

\* the adaptive driver has ended after its loop went over the whole plan
AdaptiveRunEnded ==
    /\ variant = "adaptive" /\ pc = "done" /\ anStatus = "returned"
    /\ handled = 1..PlanLen

Numbers(games) == {games[k].number : k \in 1..Len(games)}

\* C1: when every attempt of AdaptiveContentAnalyzer.run fails, run makes
\* exactly 3 external calls and then raises; there is no 4th call and no
\* substitute analysis is returned.
C1_AnalyzerExhaustion ==
    /\ analyzerCalls <= 3
    /\ analysis = NoAnalysis =>
         \/ anStatus = "running" /\ analyzerCalls < 3
         \/ anStatus = "raised" /\ analyzerCalls = 3
    /\ anStatus = "raised" => analysis = NoAnalysis /\ analyzerCalls = 3

\* three failed attempts, at least one of them a result that failed validation
C1_Witness ==
    anStatus = "raised" /\ analyzerCalls = 3 /\ lastData # NoAnalysis

\* C2: for one game the synthesizer's run (adaptive and robust) makes at
\* most 3 external calls, and makes no call after an attempt of that
\* invocation met the success criteria.
C2_SynthCallBound ==
    /\ [](gameCalls <= 3)
    /\ [][synthCalls' # synthCalls =>
            /\ pc = "synth" /\ ~met /\ gameCalls < 3
            /\ gameCalls' = gameCalls + 1
            /\ synthCalls' = synthCalls + 1]_vars

\* a third call for one game in the robust driver, after a short answer
C2_Witness ==
    variant = "robust" /\ gameCalls = 3 /\ pc = "save" /\ met

\* the four conditions of C3 on a parsed result
C3_FourConditions(d) ==
    /\ d.top = "dict" /\ d.ca # "absent" /\ d.gs = "list"
    /\ d.ca = "dict" /\ d.countKind = "int"
    /\ 3 <= d.count /\ d.count <= 15
    /\ Len(d.items) = d.count

\* C3: _validate_analysis accepts a parsed result if and only if it has both
\* sections, declares optimal_game_count, 3 <= optimal_game_count <= 15 and
\* the list has optimal_game_count entries; every analysis returned by
\* AdaptiveContentAnalyzer.run satisfies all four.
C3_ValidatorExact ==
    /\ lastData # NoAnalysis => (lastVerdict <=> C3_FourConditions(lastData))
    /\ anStatus = "returned" => C3_FourConditions(analysis)
    /\ anStatus # "returned" => analysis = NoAnalysis

\* an accepted analysis at the upper end of the range
C3_Witness ==
    anStatus = "returned" /\ analysis.count = 15 /\ Len(analysis.items) = 15

\* C4: if the analyzer fails, generate_adaptive_games ends with no partial
\* output: no synthesis call, no output directory, no game file, no index,
\* no report.
C4_AnalyzerFailureAborts ==
    anStatus = "raised" =>
        /\ pc = "done"
        /\ synthCalls = 0 /\ started = {}
        /\ ~dirCreated /\ files = {} /\ ~indexWritten /\ ~report.written

C4_Witness ==
    variant = "adaptive" /\ pc = "done" /\ anStatus = "raised" /\ analyzerCalls = 3

\* C5: once an analysis with n game specifications is accepted, synthesis is
\* attempted for every position 1..n, whichever games failed and whatever
\* the accepted entries contain.
C5_EveryPositionAttempted ==
    (variant = "adaptive" /\ pc = "done" /\ anStatus = "returned")
        => started = 1..analysis.count

\* C6: specifications are consumed left to right: a synthesis call for game
\* i is made only when games 1..i-1 are fully handled, no analyzer call
\* follows a synthesis call, and each recorded artifact carries its 1-based
\* position, with the file name and the metadata of that position.
C6_LeftToRight ==
    /\ [](\A k \in 1..Len(successful_games) :
            LET g == successful_games[k] IN
            /\ g.number \in handled /\ g.number \in 1..PlanLen
            /\ g.filename = Filename(g.number)
            /\ g.filename \in files
            /\ g.time = analysis.items[g.number])
    /\ [](started \subseteq 1..i /\ handled \subseteq started)
    /\ [][synthCalls' # synthCalls =>
            /\ handled = 1..(i - 1) /\ started = 1..i
            /\ analyzerCalls' = analyzerCalls
            /\ anStatus # "running"]_vars
    /\ [][analyzerCalls' # analyzerCalls => synthCalls = 0]_vars

\* the third game is being synthesized after the first two were handled,
\* one of them recorded
C6_Witness ==
    /\ variant = "adaptive" /\ pc = "synth" /\ i = 3 /\ gameCalls = 1
    /\ handled = {1, 2} /\ Len(successful_games) = 1

\* C7: at the end of a run in which some games failed, the index references
\* exactly the file names of the games whose file was written.
C7_IndexListsWrittenGames ==
    (AdaptiveRunEnded /\ errLog # {}) => indexRefs = files

\* C8: after a run in which k of n games failed, the report shows n-k
\* successes and k failures, with a recorded entry of status failed for
\* each failed game.
C8_ReportRecordsFailures ==
    AdaptiveRunEnded =>
        /\ report.written
        /\ report.generated = PlanLen - Cardinality({e[1] : e \in errLog})
        /\ \A e \in errLog :
             \E k \in 1..Len(report.entries) :
                /\ report.entries[k].number = e[1]
                /\ report.entries[k].status = "failed"

\* C9: in both drivers a failed write of game i's file is logged, game i is
\* left out of the list the index is built from, games i+1..n are still
\* generated and the index is still written.
C9_WriteFailureTolerated ==
    \A k \in 1..PlanLen :
        (pc = "done" /\ <<k, "write">> \in errLog) =>
            /\ k \notin Numbers(successful_games)
            /\ (k + 1)..PlanLen \subseteq started
            /\ indexWritten /\ Filename(k) \notin indexRefs

\* C10 as stated: content with fewer than 50 non-whitespace characters is
\* rejected before any external call, content with at least 50 is not
\* rejected; whitespace inside the text does not count.
C10_ShortInputRejected ==
    (variant = "adaptive" /\ pc # "load" /\ content.exists) =>
        /\ (result = "too_short") <=> (NonWsCount(content.text) < 50)
        /\ result = "too_short" => analyzerCalls = 0 /\ synthCalls = 0

\* C10 as amended: content is rejected, before any external call and without
\* a retry, exactly when fewer than 50 characters remain after leading and
\* trailing whitespace is removed; whitespace inside the text counts.
C10_TrimmedLengthRejected ==
    (variant = "adaptive" /\ pc # "load" /\ content.exists) =>
        /\ (result = "too_short") <=> (StrLen(Strip(content.text)) < 50)
        /\ result = "too_short" =>
              /\ pc = "done" /\ anStatus = "idle"
              /\ analyzerCalls = 0 /\ synthCalls = 0

\* a text of 50 or more characters rejected because only 49 remain after
\* trimming
C10_Witness ==
    /\ variant = "adaptive" /\ result = "too_short"
    /\ StrLen(content.text) >= 50 /\ NonWsCount(content.text) > 0


\* C11: analyzer errors and input errors (content missing or too short) end
\* generate_adaptive_games with an outcome its caller can tell from that of
\* a successful run; they are not turned into a normal return.
C11_ErrorsReachCaller ==
    (variant = "adaptive" /\ pc = "done"
        /\ (anStatus = "raised" \/ result = "too_short" \/ ~content.exists))
        => outcome # "returned"

\* C12: in the adaptive synthesizer a third answer that is still empty or
\* shorter than 100 characters gives a fallback document instead of an
\* exception, so the driver does not record the game as failed.
C12_FallbackOnShortAnswer ==
    (variant = "adaptive" /\ lastKind = "short" /\ gameCalls = 3)
        => (pc = "save" \/ <<i, "synth">> \notin errLog)

C14_SleepBetweenAttempts ==
    [][(\/ anStatus = "running" /\ anStatus' = "running"
           /\ anAttempt' = anAttempt + 1
        \/ pc = "synth" /\ pc' = "synth" /\ attempt' = attempt + 1)
       => slept']_vars

Count(s, T) == Cardinality({k \in 1..Len(s) : s[k] \in T})

Cleaned == san.stage \in {"once", "twice"} /\ san.raw.str

\* C15: the sanitizer is idempotent: cleaning its own output gives that
\* output back, with no further fence or 'html' prefix stripped and no
\* further wrapping.
C15_Idempotent ==
    san.stage = "twice" => san.twice.toks = san.once.toks

\* C16: for any input string clean_html_response returns a string and
\* raises nothing, and so does _emergency_cleanup.
C16_NeverRaises ==
    san.raw.str =>
        /\ san.stage \in {"once", "twice"} => san.once.kind = "str"
        /\ san.stage = "twice" => san.twice.kind = "str"
        /\ san.stage = "emergency" => san.emergency.kind = "str"

\* a document cut short in the middle of a tag has been cleaned
C16_Witness ==
    /\ san.stage = "once"
    /\ san.raw.str
    /\ Len(san.raw.toks) = MaxLen
    /\ san.raw.toks[1] = "DT"
    /\ san.raw.toks[MaxLen] = "H1"
    /\ san.once.kind = "str"
    /\ san.once.toks = san.raw.toks

\* C17: for a non-empty input string the sanitizer returns a non-empty
\* string, also when the input is only whitespace, a bare fence or the bare
\* word 'html'.
C17_NonEmptyOutput ==
    (Cleaned /\ Len(san.raw.toks) >= 1) => Len(san.once.toks) >= 1

\* C18: when the fence-stripped content has no doctype at its start and no
\* <html> opening or closing tag but has a head or body tag, bare or with
\* attributes, the output begins with the doctype and has exactly one
\* '<html' and one '</html>' that enclose the content unchanged.
C18_Wrapping ==
    Cleaned =>
        LET c == RemoveFences(san.raw.toks)
            out == san.once.toks
        IN  (/\ ~StartsWithDoctype(c)
             /\ Count(c, HtmlOpenTags \cup {"HC"}) = 0
             /\ Count(c, {"BO", "BA"}) > 0)
            => /\ StartsWithDoctype(out)
               /\ Count(out, HtmlOpenTags) = 1
               /\ Count(out, {"HC"}) = 1
               /\ \E a, b \in 1..Len(out) :
                    /\ out[a] \in HtmlOpenTags
                    /\ out[b] = "HC"
                    /\ \E j \in (a + 1)..(b - Len(c)) :
                         SubSeq(out, j, j + Len(c) - 1) = c

\* C19: for a document that begins with the doctype and is wrapped in a
\* code fence (opening fence with or without the language tag, in either
\* case, with or without a newline after it, and a closing fence) the
\* output begins with the doctype and holds no fence marker.
C19_FencedDocument ==
    (Cleaned /\ san.raw.toks \in FencedDocuments) =>
        /\ StartsWithDoctype(san.once.toks)
        /\ Count(san.once.toks, {"F"}) = 0

\* a document fenced with an upper-case language tag has been cleaned
C19_Witness ==
    /\ san.stage = "once"
    /\ san.raw.toks \in FencedDocuments
    /\ san.raw.toks[2] = "HTML"
    /\ Len(san.once.toks) = 1 + MaxDoc
    /\ StartsWithDoctype(san.once.toks)

\* C20: fences are removed at the very start and the very end only: a
\* document without any fence keeps every line, trailing whitespace
\* trimmed and blank lines dropped, also a line of a <style> block that
\* begins with 'html'.
C20_InteriorLinesKept ==
    (Cleaned /\ san.raw.toks \in PlainDocuments)
        => san.once.toks = format_html(san.raw.toks)

Named == fn.stage = "named"

\* the digits that follow 'game_' in the filename
NumberPart ==
    LET n == fn.name
        K == {k \in 2..Len(n) : \A j \in 2..k : n[j] \in {DigitChars[d] : d \in 1..10}}
    IN  SubSeq(n, 2, 1 + Cardinality(K))

\* what stands between the '_' after the number and '.html'
SlugPart == SubSeq(fn.name, 3 + Len(NumberPart), Len(fn.name) - 1)

RECURSIVE ValueOf(_)
ValueOf(ds) ==
    IF ds = <<>> THEN 0
    ELSE 10 * ValueOf(SubSeq(ds, 1, Len(ds) - 1))
           + (CHOOSE d \in 0..9 : DigitChars[d + 1] = ds[Len(ds)])

FilenameShape ==
    /\ Len(fn.name) >= 4
    /\ fn.name[1] = "game_"
    /\ fn.name[2 + Len(NumberPart)] = "_"
    /\ fn.name[Len(fn.name)] = ".html"
    /\ ValueOf(NumberPart) = fn.pos

\* no punctuation, no whitespace: the slug is the title filtered, trimmed
\* and with underscores for its spaces
SlugClean ==
    /\ \A k \in 1..Len(SlugPart) : SlugPart[k] \in {"A", "-", "_"}
    /\ Len(SlugPart) <= Len(fn.title)
    /\ Cardinality({k \in 1..Len(SlugPart) : SlugPart[k] = "A"})
         = Cardinality({k \in 1..Len(fn.title) : fn.title[k] = "A"})

\* C21 as stated: the filename is 'game_', the two-digit zero-padded
\* position, '_', the slug and '.html', and the slug holds alphanumerics,
\* hyphens and underscores only.
C21_TwoDigitFilename ==
    Named => FilenameShape /\ Len(NumberPart) = 2 /\ SlugClean

\* C21 as amended: the number is zero-padded to at least two digits (two
\* digits up to position 99, all of its digits from position 100 on).
C21_FilenameAmended ==
    Named =>
        /\ FilenameShape
        /\ Len(NumberPart) >= 2
        /\ fn.pos < 100 => Len(NumberPart) = 2
        /\ SlugClean

\* a title with punctuation and an inner space has been turned into a
\* filename at a one-digit position
C21_Witness ==
    /\ Named
    /\ fn.pos = 9
    /\ fn.title = <<"A", "SP", "!", "A">>
    /\ NumberPart = <<"0", "9">>
    /\ SlugPart = <<"A", "_", "A">>

\* C22: an analysis is used only when the game_number values of its
\* specifications are exactly 1..game_count; duplicate, missing or
\* out-of-range numbers are rejected by the validator.
C22_NumbersExact ==
    anStatus = "returned" => analysis.numbers = "exact"

\* C23: whenever the analyzer returned an analysis, the run ends with the
\* index and the report written, whatever the accepted analysis holds (for
\* instance an estimated_time that is a range, a number or empty) and
\* whichever games failed.
C23_IndexAndReportWritten ==
    (variant = "adaptive" /\ pc = "done" /\ anStatus = "returned")
        => indexWritten /\ report.written

\* the five indicators of the text s that are present
IndicatorsPresent(s) ==
    {ind \in {"doctype", "<html", "<head", "<body", "<title"} :
        \E k \in 1..Len(s) :
            \/ ind = "doctype" /\ s[k] = "DT"
            \/ ind = "<html" /\ s[k] \in {"HO", "HL"}
            \/ ind = "<head" /\ s[k] = "EH"
            \/ ind = "<body" /\ s[k] \in {"BO", "BA", "EH"}
            \/ ind = "<title" /\ s[k] = "EH"}

MultiEnded == ma.ended # "running"

\* the analysis response gave no structure with a list of specifications
NoSpecSequence ==
    ma.parsed.kind = "error" \/ ~game_specifications(ma.parsed).present

\* C25: in the multi-agent variant an analysis response that cannot be
\* parsed into a structure with a game-specification sequence aborts the
\* run: no game is generated, no game file and no index is written.
C25_MultiAgentAborts ==
    (MultiEnded /\ NoSpecSequence)
        => ma.games = 0 /\ ma.files = {} /\ ~ma.indexWritten

\* the response is a JSON object, bare or inside a json fence
BareObject(rsp) ==
    Decodes(rsp) /\ WithoutNewlines(rsp)[1] = "{"

FencedObject(rsp) ==
    /\ Len(rsp) >= 3
    /\ rsp[1] \in JsonFences
    /\ rsp[Len(rsp)] = "F"
    /\ BareObject(SubSeq(rsp, 2, Len(rsp) - 1))

\* C26: for a response that is a valid JSON object, fenced or bare, flat or
\* nested, parse_json_response returns the parsed object and not the error
\* structure.
C26_ParsesJsonObjects ==
    ma.stage \in {"designed", "developed", "validated", "saved", "failed"} =>
        /\ BareObject(ma.rsp) =>
             ma.parsed = JsonValue(ma.rsp)
        /\ FencedObject(ma.rsp) =>
             ma.parsed = JsonValue(SubSeq(ma.rsp, 2, Len(ma.rsp) - 1))

\* the decoded validation says "passes_validation": false
SaysFalse(v) == v.kind = "value" /\ ~IsList(v) /\ ~passes_validation(v)

\* C27: _save_games writes and indexes a game only if its validation
\* passed: not when the validation says passes_validation is false, and not
\* when the validator's response could not be parsed.
C27_OnlyPassingGamesSaved ==
    ma.stage = "saved" =>
        \A k \in 1..Len(ma.results) :
            LET v == ma.results[k].validation IN
            /\ SaysFalse(v) => k \notin ma.files /\ k \notin ma.indexRefs
            /\ v.kind = "error" => k \notin ma.files /\ k \notin ma.indexRefs
            /\ k \in ma.indexRefs => k \in ma.files

\* games of the plan in use (0 before the analyzer has returned one)
AcceptedCount == Len(analysis.items)

\* steps one game can take: the loop header, max_retries attempts, the save
StepsPerGame == max_retries + 3

\* A number that every step of the drivers makes smaller: the phases that
\* are still to come, the games that are still to be handled and the
\* attempts that are left.
Rank ==
    IF pc = "done" THEN 0
    ELSE IF pc = "report" THEN 1
    ELSE IF pc = "index" THEN 2
    ELSE IF pc = "loop" THEN (AcceptedCount - i) * StepsPerGame + 4
    ELSE IF pc = "save" THEN (AcceptedCount - i) * StepsPerGame + 5
    ELSE IF pc = "synth"
    THEN (AcceptedCount - i) * StepsPerGame + 6 + (max_retries - attempt)
    ELSE IF pc = "setup" THEN MaxGameCount * StepsPerGame + 10
    ELSE IF pc = "analyze"
    THEN MaxGameCount * StepsPerGame + 11 + (max_retries - anAttempt)
    ELSE MaxGameCount * StepsPerGame + 20

\* C28: a run of generate_adaptive_games makes at most 3 calls for the
\* analysis and 3 per game of the accepted plan, with at most 15 games;
\* every step brings the end nearer, no state before the end is stuck, and
\* at the end the coroutine has returned to its caller.
C28_TerminatesWithinCallBound ==
    /\ [](variant = "adaptive" =>
            /\ analyzerCalls <= 3
            /\ AcceptedCount <= 15
            /\ synthCalls <= 3 * AcceptedCount
            /\ analyzerCalls + synthCalls <= 3 + 3 * AcceptedCount
            /\ Rank \in Nat
            /\ pc # "done" => ENABLED Next
            /\ pc = "done" => outcome = "returned")
    /\ [][variant = "adaptive" => Rank' < Rank]_vars

\* a run that used every call it may use has returned
C28_Witness ==
    /\ variant = "adaptive"
    /\ pc = "done"
    /\ outcome = "returned"
    /\ AcceptedCount >= MinGameCount
    /\ analyzerCalls = 3
    /\ synthCalls = 3 * AcceptedCount

\* C29: in the driver loop the recorded games have strictly increasing
\* numbers within 1..n, each was recorded after its file was written,
\* there are never more of them than games attempted, and the report's
\* generated count never exceeds its requested count.
C29_RecordedGames ==
    variant = "adaptive" =>
        /\ \A k \in 1..Len(successful_games) :
             /\ successful_games[k].number \in 1..AcceptedCount
             /\ successful_games[k].number <= i
             /\ successful_games[k].filename \in files
             /\ \A j \in 1..(k - 1) :
                  /\ successful_games[j].number < successful_games[k].number
                  /\ successful_games[j].filename # successful_games[k].filename
        /\ Len(successful_games) <= Cardinality(started)
        /\ Cardinality(started) <= i
        /\ report.written =>
             /\ report.generated = Len(successful_games)
             /\ report.generated <= report.requested

\* games 1 and 3 are recorded, game 2 failed, and the report is written
C29_Witness ==
    /\ variant = "adaptive"
    /\ report.written
    /\ Len(successful_games) = 2
    /\ successful_games[1].number = 1
    /\ successful_games[2].number = 3
    /\ report.generated < report.requested

====
